---- MODULE Spec2Model ----
(***************************************************************************)
(* The layer-one agent's run orchestrator (scripts/agent/src/main.py) with *)
(* the state store (state.py), the git / gh operations (github_ops.py),    *)
(* the configuration (config.py) and the classifier's ranking              *)
(* (log_analyzer.py).                                                      *)
(*                                                                         *)
(* Every invocation of main.run() is one process of Procs.  A process      *)
(* walks run() one collaborator call at a time; a call that can raise has  *)
(* its outcomes drawn with \E.  The state store and the git working copy / *)
(* remote / pull requests persist between invocations, a process's locals  *)
(* vanish when it ends.                                                    *)
(***************************************************************************)
EXTENDS Integers, Sequences, FiniteSets, TLC

\* ------------------------------------------------------------------ bounds

\* Number of invocations of run() started in a behaviour.
NumProcs == 2

\* Number of runs that may follow one another in a behaviour: no invocation
\* gets the lock once MaxRuns invocations have held it and ended.  (What the
\* runs before the first have left is drawn by Init.)
MaxRuns == 1

\* Longest cluster list the oracle returns in a run.
MaxOracleClusters == 2

Procs == 1..NumProcs

Slugs == {"a", "b"}

\* ------------------------------------------------------- program constants

MAX_CLUSTERS == 3

DEFAULT_MAX_PRS_PER_RUN == 3

\* os.environ values of MAX_PRS_PER_RUN that int() accepts; "unset" gives
\* the default, any other text makes int() raise ValueError.
MaxPrsEnv == {"unset", "-1", "1", "abc"}

Required == {"ENVIRONMENT", "LOKI_URL", "OPENAI_API_KEY", "GITHUB_TOKEN", "RESEND_API_KEY"}

environment == "dev"

NoProc == 0

NoExit == -1

\* ----------------------------------------------------------------- helpers

Min(a, b) == IF a <= b THEN a ELSE b

Max(a, b) == IF a >= b THEN a ELSE b

\* Python's lst[:n], n of either sign.
PySlice(lst, n) ==
    IF n >= 0 THEN SubSeq(lst, 1, Min(n, Len(lst)))
    ELSE SubSeq(lst, 1, Max(Len(lst) + n, 0))

Range(s) == {s[i] : i \in DOMAIN s}

\* All sequences over S of length lo..hi.
SeqsOf(S, lo, hi) == UNION {[1..n -> S] : n \in lo..hi}

\* f"agent-{config.environment}/{cluster.slug}"
BranchOf(slug) == "agent-" \o environment \o "/" \o slug

\* Values the oracle may put in FixProposal.branch_name for a cluster: the
\* name the prompt asks for, or a name of its own.
BranchNames(slug) == {BranchOf(slug), "fix/other"}

\* ------------------------------------------------------------------ config

\* The texts int() parses; any other makes it raise ValueError.
IntParses(text) == text \in {"unset", "-1", "0", "1"}

\* int(os.environ.get("MAX_PRS_PER_RUN", "3")), for a text int() parses.
max_prs_per_run(text) ==
    CASE text = "-1" -> -1
      [] text = "0" -> 0
      [] text = "1" -> 1
      [] OTHER -> DEFAULT_MAX_PRS_PER_RUN

\* A configuration that asks for no value.
from_env_lenient(present, text) == IntParses(text)

\* Config.from_env: _require raises on a missing or empty required value.
from_env_ok(present, text) == Required \subseteq present /\ IntParses(text)

\* ------------------------------------------------------------- classifier

\* A LogCluster as the oracle returns it (the fields run() reads).
Cluster(slug, needs_fix, severity, occurrence_count) ==
    [slug |-> slug, needs_fix |-> needs_fix, severity |-> severity,
     occurrence_count |-> occurrence_count]

\* A rank that puts the warnings before the errors.
SeverityRankWarningFirst(severity) ==
    CASE severity = "fatal" -> 0
      [] severity = "warning" -> 1
      [] severity = "error" -> 2
      [] OTHER -> 3

\* {"fatal": 0, "error": 1, "warning": 2}.get(c.severity, 3)
SeverityRank(severity) ==
    CASE severity = "fatal" -> 0
      [] severity = "error" -> 1
      [] severity = "warning" -> 2
      [] OTHER -> 3

\* The sort key of cluster_logs compared: (rank, -occurrence_count).
KeyLess(c, d) ==
    \/ SeverityRank(c.severity) < SeverityRank(d.severity)
    \/ /\ SeverityRank(c.severity) = SeverityRank(d.severity)
       /\ -c.occurrence_count < -d.occurrence_count

\* c put into the sorted s before the first element with a larger key, so
\* after the elements with an equal key: sorted() is stable.
RECURSIVE InsertSorted(_, _)
InsertSorted(s, c) ==
    IF s = <<>> THEN <<c>>
    ELSE IF KeyLess(c, Head(s)) THEN <<c>> \o s
    ELSE <<Head(s)>> \o InsertSorted(Tail(s), c)

RECURSIVE Sorted(_)
Sorted(s) ==
    IF s = <<>> THEN <<>>
    ELSE InsertSorted(Sorted(SubSeq(s, 1, Len(s) - 1)), s[Len(s)])

\* LogAnalyzer.cluster_logs for the oracle's answer `result`: nothing to
\* classify when the batch deduplicates to nothing (an empty batch), else
\* the answer sorted and cut to MAX_CLUSTERS.
cluster_logs(entries, result) ==
    IF entries = <<>> THEN <<>>
    ELSE PySlice(Sorted(result), MAX_CLUSTERS)

\* A cluster_logs that asks the oracle a second time.
classification_requests_twice(entries) == IF entries = <<>> THEN 0 ELSE 2

\* The calls of OpenAIClient.create in one cluster_logs (lines 119-139): none
\* when there is nothing to classify, else the one of line 134.
classification_requests(entries) == IF entries = <<>> THEN 0 ELSE 1

\* The oracle's possible clusters in a run: either slug, fix or no fix.
OracleClusters ==
    {Cluster(s, nf, IF s = "a" THEN "warning" ELSE "fatal", 1) :
        s \in Slugs, nf \in BOOLEAN}

OracleResults == SeqsOf(OracleClusters, 1, MaxOracleClusters)

\* Log batches of loki.query_errors (the messages only).
EntryBatches == {<<>>, <<"m1">>}

\* ----------------------------------------------------------------- state

VARIABLES
    lock,            \* holder of the flock on /data/agent.lock, NoProc if free
    run,             \* per invocation: position in run() and its locals
    processed_patterns,  \* state.db: sequence of pattern rows
    runs,            \* state.db: sequence of run rows
    log_snapshots,   \* state.db: sequence of snapshot rows
    remote,          \* branch heads on origin
    local,           \* local branches of the clone /data/postfiatd
    head,            \* the branch the clone has checked out
    open_prs,        \* head branches of the open pull requests
    orphan,          \* history: slugs whose branch creation started in an
                     \* ended run that never committed their pattern record
    finished,        \* history: number of invocations that held the lock
                     \* and have ended
    calc             \* the call of a pure function under study: its name,
                     \* its input, its locals and its result

vars == <<lock, run, processed_patterns, runs, log_snapshots,
          remote, local, head, open_prs, orphan, finished, calc>>

\* The state of the run orchestrator.
orchestrator == <<lock, run, processed_patterns, runs, log_snapshots,
                  remote, local, head, open_prs, orphan, finished>>

\* No function under study.
NoCalc == [fn |-> "none"]

db == <<processed_patterns, runs, log_snapshots>>

git == <<remote, local, head, open_prs>>

\* Locals of an invocation that has not started, or has ended.
Fresh(pc, exit) ==
    [pc |-> pc, exit |-> exit, outcome |-> "none",
     max_prs |-> 0, prs_created |-> 0, errors |-> 0, clusters_found |-> 0,
     failed_prs |-> {}, entries |-> <<>>, existing_slugs |-> {},
     clusters |-> <<>>, fixable |-> <<>>, new_fixable |-> <<>>,
     todo |-> <<>>, i |-> 0, branch |-> "", run_id |-> 0,
     last |-> [op |-> "none", slug |-> "-", res |-> "ok"],
     attempted |-> <<>>, inflight |-> {}, run_rows |-> 0, notes |-> <<>>,
     patterns_before |-> 0, missing |-> {}, requests |-> 0,
     unwritable |-> FALSE]

\* A row of processed_patterns (the PR is named by its head branch).
PatternRow(slug, branch, status) ==
    [slug |-> slug, branch |-> branch, pr_url |-> branch, status |-> status]

\* What earlier invocations and the maintainers have left of a slug when an
\* invocation starts:
\*   "new"     nothing
\*   "local"   the local branch only: create_branch_and_commit raised at
\*             git add / commit / push, or the process died there
\*   "pushed"  the branch on origin, no pull request: create_pr raised
\*   "pr"      an open pull request, no pattern row: record_pattern raised,
\*             the process died before it, or the row was lost
\*   "stray"   as "pr", the branch under the name the oracle gave it in
\*             FixProposal.branch_name, which is not agent-{env}/{slug}
\*   "open"    the pattern row, status 'open', its branch and pull request
\*   "merged"  the pattern row, status 'open'; the pull request merged and
\*             its branch deleted on origin (no code of the agent closes a row)
\*   "closed"  the pattern row set to 'closed' and the pull request closed
\*             by the maintainers, the branch never deleted
PriorKinds == {"new", "local", "pushed", "pr", "stray", "open", "merged", "closed"}

\* The branch an earlier invocation made for slug s.
PriorBranch(kind, s) == IF kind[s] = "stray" THEN "fix/other" ELSE BranchOf(s)

PriorBranches(kind, kinds) == {PriorBranch(kind, s) : s \in {t \in Slugs : kind[t] \in kinds}}

PriorRows(kind) ==
    LET row(s) == IF kind[s] \in {"open", "merged", "closed"}
                  THEN <<PatternRow(s, BranchOf(s),
                                    IF kind[s] = "closed" THEN "closed" ELSE "open")>>
                  ELSE <<>>
    IN row("a") \o row("b")

Init ==
    /\ calc = NoCalc
    /\ lock = NoProc
    /\ run = [p \in Procs |-> Fresh("start", NoExit)]
    /\ finished = 0
    /\ runs = <<>>
    /\ log_snapshots = <<>>
    /\ \E kind \in [Slugs -> PriorKinds] :
        /\ Cardinality({s \in Slugs : kind[s] = "stray"}) <= 1
        /\ processed_patterns = PriorRows(kind)
        /\ local = {"main"} \cup PriorBranches(kind, PriorKinds \ {"new"})
        /\ remote = {"main"} \cup PriorBranches(kind, {"pushed", "pr", "stray", "open", "closed"})
        /\ open_prs = PriorBranches(kind, {"pr", "stray", "open"})
        /\ orphan = {s \in Slugs : kind[s] \in {"local", "pushed", "pr", "stray"}}
    /\ head \in local

\* One collaborator call of the run: what was called, for which slug ("-"
\* outside the per-cluster loop), and how it ended ("ok", or where it raised).
Ev(op, slug, res) == [op |-> op, slug |-> slug, res |-> res]

\* History: r with its latest call noted.
Call(r, op, slug, res) == [r EXCEPT !.last = Ev(op, slug, res)]

Upd(p, r) == run' = [run EXCEPT ![p] = r]

\* The `except Exception` of run(): where a raise in the try body lands.
Fatal(r) == [r EXCEPT !.pc = "fatal"]

\* ------------------------------------------------------------------- lock

\* A lock that is given whoever holds it.
_acquire_lock_shared(p, holder) == p

\* _acquire_lock: flock(LOCK_EX | LOCK_NB) gives the lock when no other
\* open file description holds it, and raises OSError (-> None) otherwise.
_acquire_lock(p, holder) == IF holder = NoProc THEN p ELSE NoProc

\* The invocations are alike: they are started in the order of their numbers.
Started(p) == IF p = 1 THEN TRUE ELSE run[p - 1].pc # "start"

\* run(), lines 37-45: acquire or return at once.
Acquire(p) ==
    /\ run[p].pc = "start"
    /\ Started(p)
    /\ LET got == _acquire_lock(p, lock) IN
        IF got = NoProc
        THEN /\ Upd(p, Fresh("exited", 0))
             /\ UNCHANGED <<lock, db, git, orphan, finished>>
        ELSE /\ finished < MaxRuns
             /\ lock' = got
             /\ Upd(p, [run[p] EXCEPT !.pc = "config",
                                      !.patterns_before = Len(processed_patterns)])
             /\ UNCHANGED <<db, git, orphan, finished>>

\* ----------------------------------------------------- start of the run

\* Lines 48-55: Config.from_env() and the construction of the clients
\* (StateManager() opens the database and may raise as well).  present are
\* the required names os.environ holds with a non-empty value; history: the
\* names missing.
LoadConfig(p) ==
    /\ run[p].pc = "config"
    /\ \E present \in {Required, Required \ {"ENVIRONMENT"}, Required \ {"RESEND_API_KEY"}},
          text \in MaxPrsEnv, db_ok \in BOOLEAN :
        IF from_env_ok(present, text) /\ db_ok
        THEN Upd(p, [Call(run[p], "from_env", "-", "ok") EXCEPT
                        !.pc = "pull", !.max_prs = max_prs_per_run(text),
                        !.missing = Required \ present])
        ELSE Upd(p, Fatal([Call(run[p], "from_env", "-", "raise") EXCEPT
                        !.missing = Required \ present]))
    /\ UNCHANGED <<lock, db, git, orphan, finished>>

\* GitHubOps.pull_latest: fetch, checkout main, reset --hard; _run raises at
\* the first command that fails.
PullLatestOutcomes == {"ok", "fetch", "reset"}

pull_latest_head(res, h) == IF res = "fetch" THEN h ELSE "main"

PullLatest(p) ==
    /\ run[p].pc = "pull"
    /\ \E res \in PullLatestOutcomes :
        /\ head' = pull_latest_head(res, head)
        /\ IF res = "ok"
           THEN Upd(p, [Call(run[p], "pull_latest", "-", "ok") EXCEPT !.pc = "failed_prs"])
           ELSE Upd(p, Fatal(Call(run[p], "pull_latest", "-", "raise")))
    /\ UNCHANGED <<lock, db, remote, local, open_prs, orphan, finished>>

\* ------------------------------------- failed-build reconciliation (59-81)

\* A reconciliation whose failure reaches the handler of run().
BuildFixPropagates(r) == [r EXCEPT !.pc = "fatal"]

\* Lines 80-81: the block's `except Exception`: log, go on with line 83.
BuildFixFailed(r) == [r EXCEPT !.pc = "query", !.failed_prs = {}]

\* GitHubOps.get_failed_build_prs: the open agent PRs whose "PR Build Check"
\* failed; [] when gh fails (check=False); json.loads may raise.  A raise
\* anywhere in the block lands in its own `except Exception` (line 80).
GetFailedBuildPrs(p) ==
    /\ run[p].pc = "failed_prs"
    /\ \/ \E failed \in SUBSET open_prs :
            Upd(p, [Call(run[p], "get_failed_build_prs", "-", "ok") EXCEPT
                        !.pc = "reconcile", !.failed_prs = failed])
       \/ Upd(p, BuildFixFailed(Call(run[p], "get_failed_build_prs", "-", "raise")))
    /\ UNCHANGED <<lock, db, git, orphan, finished>>

\* One iteration of the loop of lines 62-79 for PR branch b.
\*   "skip"    no build logs or no changed files: continue
\*   "oracle"  fix_build_errors raised
\*   "fetch"   push_fix_commit raised at git fetch / git checkout
\*   "push"    ... at git add / commit / push, the branch checked out
\*   "main"    ... at the final git checkout main, the fix pushed
\*   "ok"      pushed and back on main
PushFixOutcomes == {"skip", "oracle", "fetch", "push", "main", "ok"}

push_fix_commit_head(res, b, h) == IF res \in {"push", "main"} THEN b ELSE h

push_fix_commit_local(res, b, l) == IF res \in {"push", "main", "ok"} THEN l \cup {b} ELSE l

ReconcilePr(p) ==
    /\ run[p].pc = "reconcile"
    /\ IF run[p].failed_prs = {}
       THEN /\ Upd(p, [run[p] EXCEPT !.pc = "query"])
            /\ UNCHANGED <<head, local>>
       ELSE \E b \in run[p].failed_prs, res \in PushFixOutcomes :
            /\ head' = push_fix_commit_head(res, b, head)
            /\ local' = push_fix_commit_local(res, b, local)
            /\ IF res \in {"skip", "ok"}
               THEN Upd(p, [Call(run[p], "push_fix_commit", b, res) EXCEPT
                               !.failed_prs = @ \ {b}])
               ELSE Upd(p, BuildFixFailed(Call(run[p], "push_fix_commit", b, "raise")))
    /\ UNCHANGED <<lock, db, remote, open_prs, orphan, finished>>

\* ------------------------------------------------------ fetch and classify

\* A run that classifies whatever the batch.
after_query_classify(entries) == "open_patterns"

\* Line 84: `if not entries`.
after_query(entries) == IF entries = <<>> THEN "empty" ELSE "open_patterns"

\* Lines 83-89: loki.query_errors raises on a transport or HTTP failure.
QueryErrors(p) ==
    /\ run[p].pc = "query"
    /\ \/ \E entries \in EntryBatches :
            Upd(p, [Call(run[p], "query_errors", "-", "ok") EXCEPT
                        !.entries = entries,
                        !.pc = after_query(entries)])
       \/ Upd(p, Fatal(Call(run[p], "query_errors", "-", "raise")))
    /\ UNCHANGED <<lock, db, git, orphan, finished>>

\* A run row with the two counters in each other's place.
RunRowSwapped(clusters_found, prs_created, errors) ==
    [clusters_found |-> clusters_found, prs_created |-> errors, errors |-> prs_created]

\* A row of the runs table (started_at and duration left out).
RunRow(clusters_found, prs_created, errors) ==
    [clusters_found |-> clusters_found, prs_created |-> prs_created, errors |-> errors]

\* Lines 84-87: record a zero-valued run and return.
RecordEmptyRun(p) ==
    /\ run[p].pc = "empty"
    /\ \/ /\ runs' = Append(runs, RunRow(0, 0, 0))
          /\ Upd(p, [Call(run[p], "record_run", "-", "ok") EXCEPT
                        !.pc = "finally", !.outcome = "return", !.run_rows = @ + 1])
       \/ /\ UNCHANGED runs
          /\ Upd(p, Fatal([Call(run[p], "record_run", "-", "raise") EXCEPT
                        !.unwritable = TRUE]))
    /\ UNCHANGED <<lock, processed_patterns, log_snapshots, git, orphan, finished>>

\* StateManager.get_open_patterns: the slugs of the rows WHERE status != 'closed'.
get_open_patterns(rows) ==
    {rows[n].slug : n \in {m \in DOMAIN rows : rows[m].status # "closed"}}

\* Line 91.
GetOpenPatterns(p) ==
    /\ run[p].pc = "open_patterns"
    /\ \/ Upd(p, [Call(run[p], "get_open_patterns", "-", "ok") EXCEPT
                    !.existing_slugs = get_open_patterns(processed_patterns),
                    !.pc = "cluster"])
       \/ Upd(p, Fatal(Call(run[p], "get_open_patterns", "-", "raise")))
    /\ UNCHANGED <<lock, db, git, orphan, finished>>

\* Lines 96-99: the clusters to fix, by the persisted slugs.
\* An eligibility that does not look at the open patterns.
fixable_any_slug(clusters, existing_slugs) == SelectSeq(clusters, LAMBDA c : c.needs_fix)

\* An eligibility that does not look at needs_fix.
fixable_no_fix_too(clusters, existing_slugs) ==
    SelectSeq(clusters, LAMBDA c : c.slug \notin existing_slugs)

fixable(clusters, existing_slugs) ==
    SelectSeq(clusters, LAMBDA c : c.needs_fix /\ c.slug \notin existing_slugs)

\* A notification list that takes every cluster.
skipped_all(clusters) == clusters

\* Line 100.
skipped(clusters) == SelectSeq(clusters, LAMBDA c : ~c.needs_fix)

\* Line 121: the slice of the eligible list that is remediated.
capped(new_fixable, max_prs) == PySlice(new_fixable, max_prs)

\* The head of the remediation loop (line 121) and what follows it.
NextCluster(r) ==
    IF r.i <= Len(r.todo) THEN [r EXCEPT !.pc = "generate_fix"]
    ELSE [r EXCEPT !.pc = "record_run"]

\* The head of the safety-net loop (line 111); when it is over, line 121.
NextFixable(r) ==
    IF r.i <= Len(r.fixable) THEN [r EXCEPT !.pc = "filter"]
    ELSE NextCluster([r EXCEPT !.todo = capped(r.new_fixable, r.max_prs), !.i = 1])

\* Lines 92-102: the oracle's answer through cluster_logs (which raises when
\* the oracle does), the counters and the two lists.  History: requests,
\* the classification requests the run has made.
ClusterLogs(p) ==
    /\ run[p].pc = "cluster"
    /\ \/ \E result \in OracleResults :
            LET clusters == cluster_logs(run[p].entries, result)
                r == [Call(run[p], "cluster_logs", "-", "ok") EXCEPT
                        !.requests = @ + classification_requests(run[p].entries),
                        !.clusters = clusters,
                        !.clusters_found = Len(clusters),
                        !.fixable = fixable(clusters, run[p].existing_slugs),
                        !.i = 1]
            IN  Upd(p, IF skipped(clusters) # <<>>
                       THEN [r EXCEPT !.pc = "notify"]
                       ELSE NextFixable(r))
       \/ Upd(p, Fatal([Call(run[p], "cluster_logs", "-", "raise") EXCEPT
                        !.requests = @ + classification_requests(run[p].entries)]))
    /\ UNCHANGED <<lock, db, git, orphan, finished>>

\* Lines 106-107: the `except Exception` of the notification: log, go on
\* with line 110.
NotifyFailed(r) == NextFixable(r)

\* History: r with the payload of the notification call of line 105 noted.
Notified(r) == [r EXCEPT !.notes = Append(@, skipped(r.clusters))]

\* Lines 102-107: the skip notification.
Notify(p) ==
    /\ run[p].pc = "notify"
    /\ \/ Upd(p, NextFixable(Call(Notified(run[p]), "send_skip_notification", "-", "ok")))
       \/ Upd(p, NotifyFailed(Call(Notified(run[p]), "send_skip_notification", "-", "raise")))
    /\ UNCHANGED <<lock, db, git, orphan, finished>>

\* ------------------------------------------------- safety net (109-119)

\* How a command run with check=False ends: "ok" with its true output,
\* "fail" with a non-zero exit and no output, "timeout" raising.
CheckOutcomes == {"ok", "fail", "timeout"}

\* GitHubOps.branch_exists: bool(output) of git ls-remote --heads.
branch_exists(branch, cmd) == cmd = "ok" /\ branch \in remote

\* GitHubOps.pr_exists_for_branch: output of gh pr list not "" or "[]".
pr_exists_for_branch(branch, cmd) == cmd = "ok" /\ branch \in open_prs

Bool(b) == IF b THEN "true" ELSE "false"

\* One iteration of the loop of lines 111-119.
FilterStep(p) ==
    /\ run[p].pc = "filter"
    /\ LET c == run[p].fixable[run[p].i]
           branch == BranchOf(c.slug)
       IN \E be \in CheckOutcomes :
            IF be = "timeout"
            THEN Upd(p, Fatal(Call(run[p], "branch_exists", c.slug, "raise")))
            ELSE LET r1 == Call(run[p], "branch_exists", c.slug,
                                Bool(branch_exists(branch, be)))
                 IN IF branch_exists(branch, be)
                    THEN Upd(p, NextFixable([r1 EXCEPT !.i = @ + 1]))
                    ELSE \E pe \in CheckOutcomes :
                          IF pe = "timeout"
                          THEN Upd(p, Fatal(Call(r1, "pr_exists_for_branch", c.slug, "raise")))
                          ELSE LET r2 == Call(r1, "pr_exists_for_branch", c.slug,
                                              Bool(pr_exists_for_branch(branch, pe)))
                               IN IF pr_exists_for_branch(branch, pe)
                                  THEN Upd(p, NextFixable([r2 EXCEPT !.i = @ + 1]))
                                  ELSE Upd(p, NextFixable([r2 EXCEPT
                                            !.new_fixable = Append(@, c), !.i = @ + 1]))
    /\ UNCHANGED <<lock, db, git, orphan, finished>>

\* ------------------------------------------------- remediation (121-153)

\* A per-cluster failure that ends the loop.
ClusterFailedAborts(r) == [r EXCEPT !.errors = @ + 1, !.pc = "fatal"]

\* The `except Exception` of the per-cluster try (lines 149-153): count the
\* failure and go on with the next cluster.
ClusterFailed(r) == NextCluster([r EXCEPT !.errors = @ + 1, !.i = @ + 1, !.branch = ""])

\* Line 125: CodeAnalyzer.generate_fix; the branch is the oracle's
\* FixProposal.branch_name (line 127).
GenerateFix(p) ==
    /\ run[p].pc = "generate_fix"
    /\ LET c == run[p].todo[run[p].i] IN
        \/ \E branch_name \in BranchNames(c.slug) :
            Upd(p, [Call(run[p], "generate_fix", c.slug, "ok") EXCEPT
                        !.branch = branch_name, !.pc = "create_branch",
                        !.attempted = Append(@, c.slug)])
        \/ Upd(p, ClusterFailed([Call(run[p], "generate_fix", c.slug, "raise") EXCEPT
                        !.attempted = Append(@, c.slug)]))
    /\ UNCHANGED <<lock, db, git, orphan, finished>>

\* GitHubOps.create_branch_and_commit, by the command that fails:
\*   "checkout"  git checkout -b (always when the local branch exists)
\*   "push"      git add / commit / push (push: always when origin has the
\*               branch, whose history the new commit does not extend)
\*   "main"      the final git checkout main
\*   "ok"        none
BranchOutcomes == {"checkout", "push", "main", "ok"}

create_branch_possible(res, branch) ==
    \/ res = "checkout"
    \/ res = "push" /\ branch \notin local
    \/ res \in {"main", "ok"} /\ branch \notin local /\ branch \notin remote

create_branch_local(res, branch, l) == IF res = "checkout" THEN l ELSE l \cup {branch}

create_branch_remote(res, branch, rem) == IF res \in {"main", "ok"} THEN rem \cup {branch} ELSE rem

create_branch_head(res, branch, h) ==
    CASE res = "checkout" -> h
      [] res = "ok" -> "main"
      [] OTHER -> branch

\* Lines 128-132.
CreateBranchAndCommit(p) ==
    /\ run[p].pc = "create_branch"
    /\ LET c == run[p].todo[run[p].i]
           branch == run[p].branch
       IN \E res \in BranchOutcomes :
            /\ create_branch_possible(res, branch)
            /\ local' = create_branch_local(res, branch, local)
            /\ remote' = create_branch_remote(res, branch, remote)
            /\ head' = create_branch_head(res, branch, head)
            /\ IF res = "ok"
               THEN Upd(p, [Call(run[p], "create_branch_and_commit", c.slug, "ok") EXCEPT
                               !.pc = "create_pr", !.inflight = @ \cup {c.slug}])
               ELSE Upd(p, ClusterFailed([Call(run[p], "create_branch_and_commit", c.slug, res)
                               EXCEPT !.inflight = IF res = "checkout" THEN @ ELSE @ \cup {c.slug}]))
    /\ UNCHANGED <<lock, db, open_prs, orphan, finished>>

\* GitHubOps.create_pr: gh pr create needs the pushed head branch and refuses
\* a second open pull request for it.
create_pr_possible(branch) == branch \in remote /\ branch \notin open_prs

\* Lines 134-138.
CreatePr(p) ==
    /\ run[p].pc = "create_pr"
    /\ LET c == run[p].todo[run[p].i] IN
        \/ /\ create_pr_possible(run[p].branch)
           /\ open_prs' = open_prs \cup {run[p].branch}
           /\ Upd(p, [Call(run[p], "create_pr", c.slug, "ok") EXCEPT !.pc = "record_pattern"])
        \/ /\ UNCHANGED open_prs
           /\ Upd(p, ClusterFailed(Call(run[p], "create_pr", c.slug, "raise")))
    /\ UNCHANGED <<lock, db, remote, local, head, orphan, finished>>

\* An insert that replaces the rows of the slug.
record_pattern_replace(rows, slug, branch) ==
    Append(SelectSeq(rows, LAMBDA row : row.slug # slug), PatternRow(slug, branch, "open"))

\* A pattern row that names the branch of the safety net, whatever branch
\* the pull request has.
record_pattern_by_slug(rows, slug, branch) ==
    Append(rows, PatternRow(slug, BranchOf(slug), "open"))

\* StateManager.record_pattern: INSERT ... 'open', committed.
record_pattern(rows, slug, branch) == Append(rows, PatternRow(slug, branch, "open"))

\* Lines 140-147.
RecordPattern(p) ==
    /\ run[p].pc = "record_pattern"
    /\ LET c == run[p].todo[run[p].i] IN
        \/ /\ processed_patterns' = record_pattern(processed_patterns, c.slug, run[p].branch)
           /\ Upd(p, NextCluster([Call(run[p], "record_pattern", c.slug, "ok") EXCEPT
                        !.prs_created = @ + 1, !.i = @ + 1, !.branch = "",
                        !.inflight = @ \ {c.slug}]))
        \/ /\ UNCHANGED processed_patterns
           /\ Upd(p, ClusterFailed(Call(run[p], "record_pattern", c.slug, "raise")))
    /\ UNCHANGED <<lock, runs, log_snapshots, git, orphan, finished>>

\* ------------------------------------------------- run record (155-172)

\* A snapshot loop that ends after its first turn.
NextSnapshotFirstOnly(r) ==
    IF r.i <= Min(1, Len(r.clusters)) THEN [r EXCEPT !.pc = "snapshot"]
    ELSE [r EXCEPT !.pc = "finally", !.outcome = "return"]

\* The head of the snapshot loop (line 157); after it run() returns.
NextSnapshot(r) ==
    IF r.i <= Len(r.clusters) THEN [r EXCEPT !.pc = "snapshot"]
    ELSE [r EXCEPT !.pc = "finally", !.outcome = "return"]

\* Line 155: StateManager.record_run returns the new row's id.
RecordRun(p) ==
    /\ run[p].pc = "record_run"
    /\ \/ /\ runs' = Append(runs, RunRow(run[p].clusters_found, run[p].prs_created,
                                         run[p].errors))
          /\ Upd(p, NextSnapshot([Call(run[p], "record_run", "-", "ok") EXCEPT
                        !.run_id = Len(runs) + 1, !.i = 1, !.run_rows = @ + 1]))
       \/ /\ UNCHANGED runs
          /\ Upd(p, Fatal([Call(run[p], "record_run", "-", "raise") EXCEPT
                        !.unwritable = TRUE]))
    /\ UNCHANGED <<lock, processed_patterns, log_snapshots, git, orphan, finished>>

\* A row of log_snapshots.
SnapshotRow(run_id, cluster_slug) == [run_id |-> run_id, cluster_slug |-> cluster_slug]

\* Lines 157-165: one StateManager.record_snapshot.
RecordSnapshot(p) ==
    /\ run[p].pc = "snapshot"
    /\ LET c == run[p].clusters[run[p].i] IN
        \/ /\ log_snapshots' = Append(log_snapshots, SnapshotRow(run[p].run_id, c.slug))
           /\ Upd(p, NextSnapshot([Call(run[p], "record_snapshot", c.slug, "ok") EXCEPT
                        !.i = @ + 1]))
        \/ /\ UNCHANGED log_snapshots
           /\ Upd(p, Fatal(Call(run[p], "record_snapshot", c.slug, "raise")))
    /\ UNCHANGED <<lock, processed_patterns, runs, git, orphan, finished>>

\* ------------------------------------------------- the ways out (174-187)

\* A failed run recorded with the tally as it stands.
fatal_errors_tally(errors) == errors

\* Line 177: the errors value of the run record of a top-level failure.
fatal_errors(errors) == errors + 1

\* Lines 174-180: the run record of a failed run, best effort, then sys.exit(1).
FatalHandler(p) ==
    /\ run[p].pc = "fatal"
    /\ \/ /\ runs' = Append(runs, RunRow(run[p].clusters_found, run[p].prs_created,
                                         fatal_errors(run[p].errors)))
          /\ Upd(p, [run[p] EXCEPT !.pc = "finally", !.outcome = "sysexit",
                                   !.run_rows = @ + 1])
       \/ /\ UNCHANGED runs
          /\ Upd(p, [run[p] EXCEPT !.pc = "finally", !.outcome = "sysexit",
                                   !.unwritable = TRUE])
    /\ UNCHANGED <<lock, processed_patterns, log_snapshots, git, orphan, finished>>

\* The positions inside the try body of run().
TryBody ==
    {"config", "pull", "failed_prs", "reconcile", "query", "empty", "open_patterns",
     "cluster", "notify", "filter", "generate_fix", "create_branch", "create_pr",
     "record_pattern", "record_run", "snapshot"}

\* The positions at which the invocation holds the lock and is alive.
Running == TryBody \cup {"fatal", "finally"}

\* The process's exit status: 0 when run() returns, 1 for sys.exit(1) and
\* for an exception nothing catches.
exit_status(outcome) == IF outcome = "return" THEN 0 ELSE 1

\* A finally block that leaves the lock held.
finally_lock_kept(p, holder) == holder

\* Lines 182-187: flock(LOCK_UN) and close.
finally_lock(p, holder) == IF holder = p THEN NoProc ELSE holder

\* The finally block, then the end of the process.
Finally(p) ==
    /\ run[p].pc = "finally"
    /\ lock' = finally_lock(p, lock)
    /\ orphan' = orphan \cup run[p].inflight
    /\ finished' = finished + 1
    /\ Upd(p, Fresh("exited", exit_status(run[p].outcome)))
    /\ UNCHANGED <<db, git>>

\* An exception that `except Exception` does not catch (KeyboardInterrupt)
\* in the try body or in the handler: no run record, the finally block runs.
Interrupt(p) ==
    /\ run[p].pc \in TryBody \cup {"fatal"}
    /\ Upd(p, [run[p] EXCEPT !.pc = "finally", !.outcome = "uncaught"])
    /\ UNCHANGED <<lock, db, git, orphan, finished>>

\* The process dies (SIGKILL, power loss): nothing of run() runs any more
\* and the kernel drops the flock with the open file description.
Crash(p) ==
    /\ run[p].pc \in Running
    /\ lock' = IF lock = p THEN NoProc ELSE lock
    /\ orphan' = orphan \cup run[p].inflight
    /\ finished' = finished + 1
    /\ Upd(p, Fresh("dead", NoExit))
    /\ UNCHANGED <<db, git>>

\* ------------------------------------------------------------ specification

Steps ==
    \E p \in Procs :
        \/ Acquire(p)
        \/ LoadConfig(p)
        \/ PullLatest(p)
        \/ GetFailedBuildPrs(p)
        \/ ReconcilePr(p)
        \/ QueryErrors(p)
        \/ RecordEmptyRun(p)
        \/ GetOpenPatterns(p)
        \/ ClusterLogs(p)
        \/ Notify(p)
        \/ FilterStep(p)
        \/ GenerateFix(p)
        \/ CreateBranchAndCommit(p)
        \/ CreatePr(p)
        \/ RecordPattern(p)
        \/ RecordRun(p)
        \/ RecordSnapshot(p)
        \/ FatalHandler(p)
        \/ Finally(p)
        \/ Interrupt(p)
        \/ Crash(p)

Next == Steps /\ UNCHANGED calc

Spec == Init /\ [][Next]_vars

\* ------------------------------------------------- the functions on their own

\* The orchestrator before any invocation, nothing left by earlier ones.
Idle ==
    /\ lock = NoProc
    /\ run = [p \in Procs |-> Fresh("start", NoExit)]
    /\ finished = 0
    /\ processed_patterns = <<>>
    /\ runs = <<>>
    /\ log_snapshots = <<>>
    /\ remote = {"main"}
    /\ local = {"main"}
    /\ head = "main"
    /\ open_prs = {}
    /\ orphan = {}

\* Longest cluster list of the oracle that cluster_logs is applied to.
MaxRankLen == 4

\* Clusters of every severity rank ("info" has none of the three names), of
\* two occurrence counts, and of two slugs with equal keys.
RankClusters ==
    {Cluster(sc[1], TRUE, sev, sc[2]) :
        sc \in {<<"a", 1>>, <<"a", 2>>, <<"b", 1>>},
        sev \in {"fatal", "error", "warning", "info"}}

InitRank ==
    /\ Idle
    /\ \E result \in SeqsOf(RankClusters, 0, MaxRankLen) :
        calc = [fn |-> "cluster_logs", result |-> result, out |-> <<>>, done |-> FALSE]

\* LogAnalyzer.cluster_logs on a non-empty batch.
Rank ==
    /\ calc.fn = "cluster_logs"
    /\ ~calc.done
    /\ calc' = [calc EXCEPT !.out = cluster_logs(<<"m1">>, calc.result), !.done = TRUE]
    /\ UNCHANGED orchestrator

SpecRank == InitRank /\ [][Rank]_vars

\* ------------------------------------------------------ _normalize_message

\* A message is the sequence of its characters.
Digits == {"0", "1", "2", "3", "4", "5", "6", "7", "8", "9"}

\* [0-9a-fA-F]
HexChars == Digits \cup {"a", "b", "c", "d", "e", "f", "A", "B", "C", "D", "E", "F"}

\* \w of an ASCII message.
WordChars ==
    Digits \cup {"_"} \cup
    {"a", "b", "c", "d", "e", "f", "g", "h", "i", "j", "k", "l", "m"} \cup
    {"n", "o", "p", "q", "r", "s", "t", "u", "v", "w", "x", "y", "z"} \cup
    {"A", "B", "C", "D", "E", "F", "G", "H", "I", "J", "K", "L", "M"} \cup
    {"N", "O", "P", "Q", "R", "S", "T", "U", "V", "W", "X", "Y", "Z"}

\* What str.strip() removes (of ASCII).
Whitespace == {" ", "\t", "\n", "\r"}

\* Length of the longest prefix of s made of characters of class.
RunLen(s, class) ==
    LET others == {i \in DOMAIN s : s[i] \notin class}
    IN IF others = {} THEN Len(s)
       ELSE (CHOOSE i \in others : \A j \in others : i <= j) - 1

Drop(s, n) == SubSeq(s, n + 1, Len(s))

StartsWith(s, prefix) ==
    Len(s) >= Len(prefix) /\ SubSeq(s, 1, Len(prefix)) = prefix

\* \b between the character prev ("" at the start of the message) and the
\* rest s of the message.
WordBoundary(prev, s) ==
    (prev \in WordChars) # (s # <<>> /\ Head(s) \in WordChars)

\* HEX_PATTERN 0x[0-9a-fA-F]+ : length of the match at the start of s, 0 for none.
HEX_PATTERN(prev, s) ==
    LET n == RunLen(Drop(s, 2), HexChars)
    IN IF StartsWith(s, <<"0", "x">>) /\ n >= 1 THEN 2 + n ELSE 0

\* SEQ_PATTERN seq=\d+
SEQ_PATTERN(prev, s) ==
    LET n == RunLen(Drop(s, 4), Digits)
    IN IF StartsWith(s, <<"s", "e", "q", "=">>) /\ n >= 1 THEN 4 + n ELSE 0

\* TIMESTAMP_PATTERN \d{4}-\d{2}-\d{2}[T ]\d{2}:\d{2}:\d{2}, in shape "d" for
\* \d and "s" for [T ].
TIMESTAMP_PATTERN(prev, s) ==
    LET shape == <<"d", "d", "d", "d", "-", "d", "d", "-", "d", "d", "s",
                   "d", "d", ":", "d", "d", ":", "d", "d">>
    IN IF /\ Len(s) >= Len(shape)
          /\ \A i \in DOMAIN shape :
                CASE shape[i] = "d" -> s[i] \in Digits
                  [] shape[i] = "s" -> s[i] \in {"T", " "}
                  [] OTHER -> s[i] = shape[i]
       THEN Len(shape) ELSE 0

\* \b<class>{lo,hi}\b : the whole run of class characters at the start of s
\* or nothing, since inside the run there is no word boundary.
BoundedRun(prev, s, class, lo, hi) ==
    LET n == RunLen(s, class)
    IN IF n >= lo /\ n <= hi /\ WordBoundary(prev, s) /\ WordBoundary(s[n], Drop(s, n))
       THEN n ELSE 0

\* HASH_PATTERN \b[0-9a-fA-F]{40,64}\b
HASH_PATTERN(prev, s) == BoundedRun(prev, s, HexChars, 40, 64)

\* NUMBER_PATTERN \b\d{6,}\b
NUMBER_PATTERN(prev, s) == BoundedRun(prev, s, Digits, 6, Len(s))

MatchLen(pattern, prev, s) ==
    CASE pattern = "HEX" -> HEX_PATTERN(prev, s)
      [] pattern = "SEQ" -> SEQ_PATTERN(prev, s)
      [] pattern = "TIMESTAMP" -> TIMESTAMP_PATTERN(prev, s)
      [] pattern = "HASH" -> HASH_PATTERN(prev, s)
      [] pattern = "NUMBER" -> NUMBER_PATTERN(prev, s)

\* body applied to the value of x, computed once, as the assignment to a
\* local variable does.
Bind(x, body(_)) == CHOOSE r \in {body(v) : v \in {x}} : TRUE

\* pattern.sub(repl, ...) on the rest s of a message after the character
\* prev: the leftmost match replaced, then the matches after it.
RECURSIVE Sub(_, _, _, _)
Sub(pattern, repl, prev, s) ==
    LET before(i) == IF i = 1 THEN prev ELSE s[i - 1]
        starts == {i \in DOMAIN s : MatchLen(pattern, before(i), Drop(s, i - 1)) > 0}
    IN IF starts = {} THEN s
       ELSE Bind(CHOOSE k \in starts : \A j \in starts : k <= j, LAMBDA i :
            Bind(MatchLen(pattern, before(i), Drop(s, i - 1)), LAMBDA n :
            Bind(Drop(s, i + n - 1), LAMBDA rest :
                SubSeq(s, 1, i - 1) \o repl \o Sub(pattern, repl, s[i + n - 1], rest))))

\* str.strip()
strip(s) ==
    LET kept == {i \in DOMAIN s : s[i] \notin Whitespace}
    IN IF kept = {} THEN <<>>
       ELSE SubSeq(s, CHOOSE i \in kept : \A j \in kept : i <= j,
                      CHOOSE i \in kept : \A j \in kept : i >= j)

\* _normalize_message
_normalize_message(message) ==
    Bind(message, LAMBDA raw :
    Bind(Sub("HEX", <<"<", "h", "e", "x", ">">>, "", raw), LAMBDA hex :
    Bind(Sub("SEQ", <<"s", "e", "q", "=", "<", "N", ">">>, "", hex), LAMBDA seq :
    Bind(Sub("TIMESTAMP", <<"<", "t", "i", "m", "e", "s", "t", "a", "m", "p", ">">>, "", seq),
         LAMBDA timestamp :
    Bind(Sub("HASH", <<"<", "h", "a", "s", "h", ">">>, "", timestamp), LAMBDA hash :
    Bind(Sub("NUMBER", <<"<", "N", ">">>, "", hash), LAMBDA number :
        strip(number)))))))

\* Pieces of log messages: two words, two kinds of whitespace, and two
\* values of each volatile field (hex literal, seq marker, timestamp, hash
\* string, long digit run).
Token ==
    [
     ms |-> <<"m", "s">>,
     to |-> <<"t", "o">>,
     sp |-> <<" ">>,
     tab |-> <<"\t">>,
     hex1 |-> <<"0", "x", "1", "f">>,
     hex2 |-> <<"0", "x", "A", "B">>,
     seq1 |-> <<"s", "e", "q", "=", "1">>,
     seq2 |-> <<"s", "e", "q", "=", "2", "2">>,
     ts1 |-> <<"2", "0", "2", "4", "-", "0", "1", "-", "0", "1", "T", "1",
          "0", ":", "0", "0", ":", "0", "0">>,
     ts2 |-> <<"2", "0", "2", "5", "-", "1", "2", "-", "3", "1", " ", "2",
          "3", ":", "5", "9", ":", "5", "9">>,
     hash1 |-> <<"a", "1", "a", "1", "a", "1", "a", "1", "a", "1", "a", "1",
          "a", "1", "a", "1", "a", "1", "a", "1", "a", "1", "a", "1",
          "a", "1", "a", "1", "a", "1", "a", "1", "a", "1", "a", "1",
          "a", "1", "a", "1">>,
     hash2 |-> <<"B", "2", "B", "2", "B", "2", "B", "2", "B", "2", "B", "2",
          "B", "2", "B", "2", "B", "2", "B", "2", "B", "2", "B", "2",
          "B", "2", "B", "2", "B", "2", "B", "2", "B", "2", "B", "2",
          "B", "2", "B", "2">>,
     num1 |-> <<"1", "2", "3", "4", "5", "6">>,
     num2 |-> <<"7", "6", "5", "4", "3", "2", "1">>
    ]

TokenNames == DOMAIN Token

\* The tokens of each volatile field.
Volatile ==
    [hex |-> {"hex1", "hex2"}, seq |-> {"seq1", "seq2"}, timestamp |-> {"ts1", "ts2"},
     hash |-> {"hash1", "hash2"}, number |-> {"num1", "num2"}]

\* Longest message, in tokens.
MaxMsgTokens == 2

\* The message made of the tokens named.
RECURSIVE Text(_)
Text(names) ==
    IF names = <<>> THEN <<>> ELSE Token[Head(names)] \o Text(Tail(names))

\* m with one token replaced or one token added at the end.
Variants(m) ==
    {[m EXCEPT ![i] = t] : i \in DOMAIN m, t \in TokenNames}
        \cup {Append(m, t) : t \in TokenNames}

InitNormalize ==
    /\ Idle
    /\ \E m1 \in SeqsOf(TokenNames, 1, MaxMsgTokens) : \E m2 \in Variants(m1) :
        calc = [fn |-> "_normalize_message", m1 |-> m1, m2 |-> m2,
                n1 |-> <<>>, n2 |-> <<>>, done |-> FALSE]

\* _normalize_message applied to the two messages.
Normalize ==
    /\ calc.fn = "_normalize_message"
    /\ ~calc.done
    /\ calc' = [calc EXCEPT !.n1 = _normalize_message(Text(calc.m1)),
                            !.n2 = _normalize_message(Text(calc.m2)),
                            !.done = TRUE]
    /\ UNCHANGED orchestrator

SpecNormalize == InitNormalize /\ [][Normalize]_vars

\* ------------------------------------------------- _deduplicate_messages

MAX_SAMPLES_PER_PATTERN == 5

\* Longest list of entries.
MaxEntries == 6

\* The log entries a list is made of: A1 and A2 differ in a seq marker only
\* and come from different modules, B and C are two other messages.
LogEntry ==
    [A1 |-> [message |-> Text(<<"seq1", "sp", "to">>), module |-> "peer", level |-> "error"],
     A2 |-> [message |-> Text(<<"seq2", "sp", "to">>), module |-> "ledger", level |-> "warning"],
     B |-> [message |-> Text(<<"to">>), module |-> "peer", level |-> "error"],
     C |-> [message |-> Text(<<"ms">>), module |-> "ledger", level |-> "fatal"]]

\* The locals of a call before its loop.
Start(entries) ==
    [fn |-> "_deduplicate_messages", entries |-> entries, i |-> 1,
     counter |-> <<>>, samples |-> <<>>, deduped |-> <<>>, done |-> FALSE]

InitDedup ==
    /\ Idle
    /\ \E entries \in SeqsOf(DOMAIN LogEntry, 0, MaxEntries) : calc = Start(entries)

\* A count of the entries of a key that follow each other: a key seen again
\* after another key starts at 1 again.
IncrementRun(counter, key) ==
    IF counter # <<>> /\ counter[Len(counter)][1] = key
    THEN [counter EXCEPT ![Len(counter)] = <<key, @[2] + 1>>]
    ELSE SelectSeq(counter, LAMBDA item : item[1] # key) \o <<<<key, 1>>>>

\* counter[key] += 1 on a Counter kept as the list of its items in insertion
\* order.
Increment(counter, key) ==
    IF \E n \in DOMAIN counter : counter[n][1] = key
    THEN [n \in DOMAIN counter |->
            IF counter[n][1] = key THEN <<key, counter[n][2] + 1>> ELSE counter[n]]
    ELSE Append(counter, <<key, 1>>)

has_room_always(kept) == TRUE

\* len(samples[key]) < MAX_SAMPLES_PER_PATTERN
has_room(kept) == Len(kept) < MAX_SAMPLES_PER_PATTERN

\* One turn of the loop over entries (lines 56-62) on the locals c of a
\* call; samples is a function from the keys seen to their lists.
loop_turn(c) ==
    LET entry == LogEntry[c.entries[c.i]]
        key == _normalize_message(entry.message)
        samples == [k \in DOMAIN c.samples \cup {key} |->
                        IF k \in DOMAIN c.samples THEN c.samples[k] ELSE <<>>]
    IN [c EXCEPT
            !.counter = Increment(@, key),
            !.samples = IF has_room(samples[key])
                        THEN [samples EXCEPT ![key] = Append(@, entry.message)]
                        ELSE samples,
            !.i = @ + 1]

Deduplicate ==
    /\ calc.fn = "_deduplicate_messages"
    /\ calc.i <= Len(calc.entries)
    /\ calc' = loop_turn(calc)
    /\ UNCHANGED orchestrator

most_common_unsorted(counter) == counter

\* Counter.most_common(): the items by count, largest first, equal counts in
\* insertion order; the first item of the largest count, then the rest.
RECURSIVE most_common(_)
most_common(counter) ==
    IF counter = <<>> THEN <<>>
    ELSE LET top == CHOOSE n \in DOMAIN counter :
                        /\ \A m \in DOMAIN counter : counter[m][2] <= counter[n][2]
                        /\ \A m \in 1..(n - 1) : counter[m][2] < counter[n][2]
         IN <<counter[top]>> \o
                most_common(SubSeq(counter, 1, top - 1) \o SubSeq(counter, top + 1, Len(counter)))

\* next(e for e in entries if _normalize_message(e.message) == key), for a
\* key of the counter.
first_entry(entries, key) ==
    LET with == {n \in DOMAIN entries : _normalize_message(LogEntry[entries[n]].message) = key}
    IN LogEntry[entries[CHOOSE n \in with : \A m \in with : n <= m]]

\* The list built after the loop (lines 64-82) from the locals c of a call.
build_deduped(c) ==
    LET items == most_common(c.counter)
    IN [c EXCEPT
            !.deduped = [n \in DOMAIN items |->
                            [normalized |-> items[n][1],
                             count |-> items[n][2],
                             samples |-> c.samples[items[n][1]],
                             module |-> first_entry(c.entries, items[n][1]).module,
                             level |-> first_entry(c.entries, items[n][1]).level]],
            !.done = TRUE]

Deduped ==
    /\ calc.fn = "_deduplicate_messages"
    /\ calc.i > Len(calc.entries)
    /\ ~calc.done
    /\ calc' = build_deduped(calc)
    /\ UNCHANGED orchestrator

SpecDedup == InitDedup /\ [][Deduplicate \/ Deduped]_vars

\* Two calls, the second on a reordering of the entries of the first.

\* Longest list of entries that is reordered.
MaxPermuted == 4

InitPermuted ==
    /\ Idle
    /\ \E entries \in SeqsOf(DOMAIN LogEntry, 0, MaxPermuted) :
        \E order \in Permutations(DOMAIN entries) :
            calc = [fn |-> "permuted",
                    one |-> Start(entries),
                    other |-> Start([n \in DOMAIN entries |-> entries[order[n]]])]

\* A loop turn of the first call, or of the second once the first is over.
DeduplicateOf(call) ==
    /\ calc.fn = "permuted"
    /\ call = "other" => calc.one.done
    /\ calc[call].i <= Len(calc[call].entries)
    /\ calc' = [calc EXCEPT ![call] = loop_turn(@)]
    /\ UNCHANGED orchestrator

DedupedOf(call) ==
    /\ calc.fn = "permuted"
    /\ calc[call].i > Len(calc[call].entries)
    /\ ~calc[call].done
    /\ calc' = [calc EXCEPT ![call] = build_deduped(@)]
    /\ UNCHANGED orchestrator

SpecPermuted ==
    InitPermuted /\ [][\E call \in {"one", "other"} : DeduplicateOf(call) \/ DedupedOf(call)]_vars

\* --------------------------------------------------- OpenAIClient.create

RETRY_DELAYS == <<2, 5, 15>>

\* How one request to the service ends: a response that validates against
\* the schema, an exception of the request, or a response that
\* model_validate_json rejects.
Outcomes == {"valid", "transport", "invalid"}

\* The service's answers to the requests of one call of create, one more
\* than the loop can make.
InitCreate ==
    /\ Idle
    /\ \E answers \in [1..(Len(RETRY_DELAYS) + 1) -> Outcomes] :
        calc = [fn |-> "create", answers |-> answers, pc |-> "request", attempt |-> 1,
                requests |-> 0, slept |-> <<>>, result |-> "none"]

\* The try block of one turn of the loop (lines 46-69): the request, the
\* validation, and the handler's choice between raising and retrying.
Request ==
    /\ calc.fn = "create"
    /\ calc.pc = "request"
    /\ calc' = [calc EXCEPT
            !.requests = @ + 1,
            !.pc = IF calc.answers[calc.attempt] = "valid" THEN "returned"
                   ELSE IF calc.attempt = Len(RETRY_DELAYS) THEN "raised"
                   ELSE "sleep",
            !.result = IF calc.answers[calc.attempt] = "valid" THEN "value"
                       ELSE IF calc.attempt = Len(RETRY_DELAYS)
                            THEN calc.answers[calc.attempt]
                       ELSE @]
    /\ UNCHANGED orchestrator

\* time.sleep(delay) and the next turn of enumerate(RETRY_DELAYS, start=1)
\* (lines 70-77, 45).
Sleep ==
    /\ calc.fn = "create"
    /\ calc.pc = "sleep"
    /\ calc' = [calc EXCEPT !.slept = Append(@, RETRY_DELAYS[calc.attempt]),
                            !.attempt = @ + 1,
                            !.pc = "request"]
    /\ UNCHANGED orchestrator

SpecCreate == InitCreate /\ [][Request \/ Sleep]_vars

\* ------------------------------------------------------------ termination

\* What invocation p does next by itself: every step of run() and no event
\* from outside the program.
Proceeds(p) ==
    \/ Acquire(p)
    \/ LoadConfig(p)
    \/ PullLatest(p)
    \/ GetFailedBuildPrs(p)
    \/ ReconcilePr(p)
    \/ QueryErrors(p)
    \/ RecordEmptyRun(p)
    \/ GetOpenPatterns(p)
    \/ ClusterLogs(p)
    \/ Notify(p)
    \/ FilterStep(p)
    \/ GenerateFix(p)
    \/ CreateBranchAndCommit(p)
    \/ CreatePr(p)
    \/ RecordPattern(p)
    \/ RecordRun(p)
    \/ RecordSnapshot(p)
    \/ FatalHandler(p)
    \/ Finally(p)

\* The invocations, and a call of OpenAIClient.create on its own with its
\* loop spelled out (in the invocations the call is one step that returns or
\* raises).  Every call returns or raises: a process that can take a step
\* takes it, and so does the retry loop.
SpecTerminates ==
    /\ Init \/ InitCreate
    /\ [][(calc = NoCalc /\ Next) \/ Request \/ Sleep]_vars
    /\ \A p \in Procs : WF_vars(calc = NoCalc /\ Proceeds(p) /\ UNCHANGED calc)
    /\ WF_vars(Request \/ Sleep)

\* ------------------------------------------------------------- properties

\* The calls that remediate one cluster.
FixOps == {"generate_fix", "create_branch_and_commit", "create_pr", "record_pattern"}

\* The positions inside the per-cluster try (lines 122-148).
FixPcs == {"generate_fix", "create_branch", "create_pr", "record_pattern"}

OpenRows(s) ==
    {n \in DOMAIN processed_patterns :
        processed_patterns[n].slug = s /\ processed_patterns[n].status # "closed"}

\* C1: the processed_patterns table never holds two records with status
\* other than 'closed' for one slug.
C1_OneOpenRecordPerSlug == \A s \in Slugs : Cardinality(OpenRows(s)) <= 1

\* The slugs with a non-closed record that invocation p did not write itself
\* (its own inserts are the last prs_created rows of the table).
PriorOpenSlugs(p) ==
    {processed_patterns[n].slug :
        n \in {m \in 1..(Len(processed_patterns) - run[p].prs_created) :
                    processed_patterns[m].status # "closed"}}

\* C2: no generate_fix, create_branch_and_commit, create_pr or
\* record_pattern call of a run is for a slug that had a non-closed pattern
\* record when the run began, whatever the cluster's needs_fix and whether or
\* not its branch or pull request exists.
C2_OpenSlugNeverRemediated ==
    \A p \in Procs :
        /\ \A n \in DOMAIN run[p].attempted : run[p].attempted[n] \notin PriorOpenSlugs(p)
        /\ run[p].last.op \in FixOps => run[p].last.slug \notin PriorOpenSlugs(p)
        /\ run[p].pc \in FixPcs => run[p].todo[run[p].i].slug \notin PriorOpenSlugs(p)

\* A run that wrote a pattern record for one cluster and is past the loop,
\* while another cluster of the batch needs a fix, has an open record, and
\* has neither its branch on origin nor an open pull request.
C2_Witness ==
    \E p \in Procs :
        /\ run[p].pc = "record_run"
        /\ run[p].prs_created = 1
        /\ \E n \in DOMAIN run[p].clusters :
            LET c == run[p].clusters[n] IN
                /\ c.needs_fix
                /\ c.slug \in PriorOpenSlugs(p)
                /\ BranchOf(c.slug) \notin remote \cup open_prs

\* C3: at the end of every iteration of the safety-net loop, and until the
\* first remediation call, the eligible list holds no cluster whose branch
\* agent-{environment}/{slug} is on origin or is the head of an open pull
\* request.
C3_LiveBranchExcluded ==
    \A p \in Procs :
        (run[p].pc = "filter" \/ (run[p].pc \in {"generate_fix", "record_run"}
                                    /\ run[p].attempted = <<>>))
        => \A n \in DOMAIN run[p].new_fixable :
                BranchOf(run[p].new_fixable[n].slug) \notin remote \cup open_prs

\* C4: no run calls generate_fix for a slug whose branch creation was
\* started by an earlier run that ended without committing the slug's
\* pattern record.
C4_NoRegenerationAfterCrash ==
    \A p \in Procs : \A n \in DOMAIN run[p].attempted : run[p].attempted[n] \notin orphan

\* At most one invocation is past _acquire_lock, and it is the lock's holder.
MutexState ==
    /\ Cardinality({p \in Procs : run[p].pc \in Running}) <= 1
    /\ \A p \in Procs : run[p].pc \in Running => lock = p

\* C5: at most one invocation is past _acquire_lock at any time, and an
\* invocation that does not get the lock ends at once with exit status 0,
\* having written nothing to the state store, changed nothing of the
\* repository and called no collaborator.
C5_MutualExclusion ==
    [][/\ MutexState'
       /\ \A p \in Procs :
            (run[p].pc = "start" /\ run'[p].pc \notin Running \cup {"start"})
            => /\ lock # NoProc
               /\ run'[p] = Fresh("exited", 0)
               /\ UNCHANGED <<lock, db, git>>]_vars

\* One invocation is in its run while another has found the lock held and
\* has ended.
C5_Witness ==
    \E p, q \in Procs :
        /\ run[p].pc \in TryBody
        /\ lock = p
        /\ run[q].pc = "exited"
        /\ finished = 0

\* C6: an invocation that has ended, however it ended, does not hold the
\* lock, so that when no invocation is in its run _acquire_lock succeeds for
\* every invocation.
C6_LockReleased ==
    /\ \A p \in Procs : run[p].pc \in {"exited", "dead"} => lock # p
    /\ (\A p \in Procs : run[p].pc \notin Running)
        => \A q \in Procs : _acquire_lock(q, lock) = q

\* A run that held the lock has ended with a non-zero status and the lock
\* is free.
C6_Witness ==
    \E p \in Procs :
        /\ run[p].pc = "exited"
        /\ run[p].exit = 1
        /\ finished = 1
        /\ lock = NoProc

\* How a call that does not raise ends.
Returned == {"ok", "skip", "true", "false"}

\* Invocation p takes a step of its try body in which a call raises (steps
\* of Interrupt and Crash, where nothing is called, left out).
Raises(p) ==
    /\ run'[p] # run[p]
    /\ run'[p].pc \notin {"finally", "dead"}
    /\ run'[p].last.res \notin Returned

SlugsOf(cs) == [n \in DOMAIN cs |-> cs[n].slug]

\* C7: a raise in generate_fix, create_branch_and_commit, create_pr or
\* record_pattern adds one to errors, leaves prs_created alone and moves on
\* to the next cluster of the capped list, or to record_run after the last;
\* when record_run is reached every cluster of the capped list has been
\* attempted and counted as a pull request or as an error.
C7_ClusterFailureIsolated ==
    [][\A p \in Procs :
        /\ (run[p].pc \in FixPcs /\ Raises(p))
            => /\ run'[p].errors = run[p].errors + 1
               /\ run'[p].prs_created = run[p].prs_created
               /\ run'[p].todo = run[p].todo
               /\ run'[p].i = run[p].i + 1
               /\ run'[p].pc = IF run[p].i < Len(run[p].todo)
                                THEN "generate_fix" ELSE "record_run"
               /\ UNCHANGED runs
        /\ run'[p].pc = "record_run"
            => /\ run'[p].attempted = SlugsOf(run'[p].todo)
               /\ run'[p].errors + run'[p].prs_created = Len(run'[p].todo)]_vars

\* The first of two clusters failed, the second got its pull request and its
\* pattern record, and the run is about to write its run record.
C7_Witness ==
    \E p \in Procs :
        /\ run[p].pc = "record_run"
        /\ Len(run[p].todo) = 2
        /\ run[p].todo[1].slug # run[p].todo[2].slug
        /\ run[p].errors = 1
        /\ run[p].prs_created = 1
        /\ processed_patterns # <<>>
        /\ processed_patterns[Len(processed_patterns)].slug = run[p].todo[2].slug

\* The positions of the try body outside the per-cluster loop and outside
\* the best-effort blocks.
TopPcs == TryBody \ (FixPcs \cup {"failed_prs", "reconcile", "notify"})

\* C8: a raise outside the per-cluster loop and the best-effort blocks lands
\* in the handler of run() with the counters as they are; the handler writes
\* at most one run record, with errors one more than the tally, and the
\* process then exits with status 1.
C8_TopLevelFailure ==
    [][\A p \in Procs :
        /\ (run[p].pc \in TopPcs /\ Raises(p))
            => /\ run'[p].last.res = "raise"
               /\ run'[p].pc = "fatal"
               /\ run'[p].errors = run[p].errors
               /\ run'[p].prs_created = run[p].prs_created
               /\ run'[p].clusters_found = run[p].clusters_found
        /\ (run[p].pc = "fatal" /\ run'[p].pc = "finally" /\ run'[p].outcome = "sysexit")
            => \/ runs' = runs
               \/ runs' = Append(runs, RunRow(run[p].clusters_found, run[p].prs_created,
                                              run[p].errors + 1))
        /\ (run[p].pc = "finally" /\ run[p].outcome = "sysexit" /\ run'[p].pc = "exited")
            => run'[p].exit = 1]_vars

\* After one per-cluster failure a later step raised, and the handler has
\* written the run record with errors = 2.
C8_Witness ==
    \E p \in Procs :
        /\ run[p].pc = "finally"
        /\ run[p].outcome = "sysexit"
        /\ run[p].last.res = "raise"
        /\ run[p].errors = 1
        /\ runs # <<>>
        /\ runs[Len(runs)].errors = 2

\* C9: a raise in the failed-build reconciliation goes on to the log fetch,
\* and a raise of the skip notification leaves the run where a successful
\* notification leaves it; neither changes errors or prs_created.
C9_BestEffortSideChannels ==
    [][\A p \in Procs :
        /\ (run[p].pc \in {"failed_prs", "reconcile"} /\ Raises(p))
            => /\ run'[p].pc = "query"
               /\ run'[p].errors = run[p].errors
               /\ run'[p].prs_created = run[p].prs_created
               /\ UNCHANGED db
        /\ (run[p].pc = "notify" /\ Raises(p))
            => /\ run'[p] = NextFixable(Call(Notified(run[p]), "send_skip_notification",
                                              "-", "raise"))
               /\ run'[p].errors = run[p].errors
               /\ UNCHANGED db]_vars

\* push_fix_commit has raised and the run is at the log fetch, no error
\* counted.
C9_Witness ==
    \E p \in Procs :
        /\ run[p].pc = "query"
        /\ run[p].last.op = "push_fix_commit"
        /\ run[p].last.res = "raise"
        /\ run[p].errors = 0

\* C10: when the remediation loop is over, the clusters attempted are the
\* first max_prs_per_run clusters of the eligible list, all of them if the
\* list is shorter, in the list's order.
C10_FirstMaxPrsAttempted ==
    \A p \in Procs :
        run[p].pc = "record_run"
        => run[p].attempted =
            SlugsOf(SubSeq(run[p].new_fixable, 1,
                           Min(Max(run[p].max_prs, 0), Len(run[p].new_fixable))))

\* C11: an invocation that holds the lock has appended at most one row to
\* the runs table, and exactly one when run() returns.
C11_OneRunRowPerInvocation ==
    \A p \in Procs :
        /\ run[p].run_rows <= 1
        /\ (run[p].pc = "finally" /\ run[p].outcome = "return") => run[p].run_rows = 1

\* C12: after query_errors has returned no entries the next call of the run
\* is record_run(started_at, 0, 0, 0) and nothing else; when it returns, the
\* row (0, 0, 0) is in the runs table, no pattern or snapshot row is written,
\* the repository is untouched, and the process ends with status 0.
C12_EmptyBatch ==
    [][\A p \in Procs :
        /\ (run[p].pc = "query" /\ run'[p].last = Ev("query_errors", "-", "ok")
                /\ run'[p].entries = <<>>)
            => run'[p].pc = "empty"
        /\ run'[p].pc = "empty"
            => /\ run'[p].last = Ev("query_errors", "-", "ok")
               /\ run'[p].entries = <<>>
        /\ (run[p].pc = "empty" /\ run'[p].pc \notin {"empty", "finally", "dead"})
            => /\ run'[p].pc = "fatal"
               /\ run'[p].last = Ev("record_run", "-", "raise")
               /\ UNCHANGED <<db, git>>
        /\ (run[p].pc = "empty" /\ run'[p].pc = "finally" /\ run'[p].outcome = "return")
            => /\ run'[p].last = Ev("record_run", "-", "ok")
               /\ runs' = Append(runs, RunRow(0, 0, 0))
               /\ UNCHANGED <<processed_patterns, log_snapshots, git>>
        /\ (run[p].pc = "finally" /\ run[p].outcome = "return" /\ run'[p].pc = "exited")
            => run'[p].exit = 0]_vars

\* An empty batch: the zero-valued run row is written and run() has returned.
C12_Witness ==
    \E p \in Procs :
        /\ run[p].pc = "finally"
        /\ run[p].outcome = "return"
        /\ run[p].entries = <<>>
        /\ run[p].last = Ev("record_run", "-", "ok")
        /\ runs # <<>>
        /\ runs[Len(runs)] = RunRow(0, 0, 0)

\* The positions of a normal run after the notification block (line 108 on).
PastNotify == {"filter", "record_run", "snapshot"} \cup FixPcs

NoFix(clusters) == SelectSeq(clusters, LAMBDA c : ~c.needs_fix)

\* C13: the fixable, eligible and capped lists hold needs_fix clusters only;
\* past the notification block the run has made one notification call with
\* all the needs_fix = false clusters if there is any, and none otherwise,
\* and none before; a run whose clusters are all needs_fix = false writes
\* prs_created = 0 in its run record.
C13_NonFixClusters ==
    \A p \in Procs :
        /\ \A n \in DOMAIN run[p].fixable : run[p].fixable[n].needs_fix
        /\ \A n \in DOMAIN run[p].new_fixable : run[p].new_fixable[n].needs_fix
        /\ \A n \in DOMAIN run[p].todo : run[p].todo[n].needs_fix
        /\ run[p].pc \in FixPcs => run[p].todo[run[p].i].needs_fix
        /\ run[p].pc \in PastNotify
            => run[p].notes = IF NoFix(run[p].clusters) = <<>> THEN <<>>
                              ELSE <<NoFix(run[p].clusters)>>
        /\ run[p].pc \in TryBody \ (PastNotify \cup {"notify"}) => run[p].notes = <<>>
        /\ Len(run[p].notes) <= 1
        /\ (run[p].pc = "snapshot" /\ NoFix(run[p].clusters) = run[p].clusters)
            => runs[run[p].run_id].prs_created = 0

\* One cluster was notified, the other got its pull request.
C13_Witness ==
    \E p \in Procs :
        /\ run[p].pc = "record_run"
        /\ Len(run[p].clusters) = 2
        /\ Len(NoFix(run[p].clusters)) = 1
        /\ run[p].notes = <<NoFix(run[p].clusters)>>
        /\ run[p].prs_created = 1

\* C14: in the run record written by record_run at the end of the loop,
\* prs_created is the number of pattern rows the run inserted, prs_created +
\* errors is the number of clusters attempted (so errors is the number of
\* attempts that raised), and clusters_found is the number of clusters the
\* classifier returned, at most 3; with one eligible cluster, a cap of at
\* least 1 and no failure the run has inserted one pattern row and records
\* prs_created = 1, errors = 0.
C14_RunCounters ==
    [][\A p \in Procs :
        (run[p].pc = "record_run" /\ run'[p].last = Ev("record_run", "-", "ok"))
        => LET row == runs'[Len(runs')]
               inserted == Len(processed_patterns) - run[p].patterns_before
           IN /\ Len(runs') = Len(runs) + 1
              /\ row.prs_created = inserted
              /\ row.prs_created + row.errors = Len(run[p].attempted)
              /\ row.clusters_found = Len(run[p].clusters)
              /\ row.clusters_found <= 3
              /\ (Len(run[p].new_fixable) = 1 /\ run[p].max_prs >= 1 /\ row.errors = 0)
                    => inserted = 1 /\ row.prs_created = 1]_vars

\* Two clusters attempted, one failed; the run row is written.
C14_Witness ==
    \E p \in Procs :
        /\ run[p].pc = "snapshot"
        /\ runs[run[p].run_id] = RunRow(2, 1, 1)
        /\ Len(run[p].attempted) = 2
        /\ Len(processed_patterns) = run[p].patterns_before + 1

\* The sort key the ranking is to follow: severity rank, then the
\* occurrence count, larger first.
RankOf(c) ==
    IF c.severity = "fatal" THEN 0
    ELSE IF c.severity = "error" THEN 1
    ELSE IF c.severity = "warning" THEN 2
    ELSE 3

Before(c, d) ==
    \/ RankOf(c) < RankOf(d)
    \/ RankOf(c) = RankOf(d) /\ c.occurrence_count > d.occurrence_count

\* The place of s[i] in s sorted stably: after every element with a smaller
\* key and after the earlier elements with an equal key.
PlaceOf(s, i) ==
    1 + Cardinality({j \in DOMAIN s : Before(s[j], s[i])})
      + Cardinality({j \in 1..(i - 1) : ~Before(s[j], s[i]) /\ ~Before(s[i], s[j])})

\* C15: cluster_logs returns the first min(n, 3) clusters of the oracle's n
\* clusters sorted by severity rank (fatal 0, error 1, warning 2, other 3),
\* then by occurrence count descending, equal keys in the oracle's order.
C15_ClassifierRanking ==
    (calc.fn = "cluster_logs" /\ calc.done)
    => /\ Len(calc.out) = Min(Len(calc.result), 3)
       /\ \A i \in DOMAIN calc.result :
            PlaceOf(calc.result, i) <= 3 => calc.out[PlaceOf(calc.result, i)] = calc.result[i]

\* Four clusters, the severities [warning, fatal, error] among them and two
\* clusters of equal key: the answer is cut to three.
C15_Witness ==
    /\ calc.fn = "cluster_logs"
    /\ calc.done
    /\ Len(calc.result) = 4
    /\ calc.result[1].severity = "warning"
    /\ calc.result[2].severity = "fatal"
    /\ calc.result[3].severity = "error"
    /\ calc.result[4] = [calc.result[3] EXCEPT !.slug = "b"]
    /\ calc.result[3].slug = "a"
    /\ calc.out = <<calc.result[2], calc.result[3], calc.result[4]>>

\* Tokens t and u are values of one volatile field.
SameField(t, u) == \E f \in DOMAIN Volatile : {t, u} \subseteq Volatile[f]

\* The tokens that are no value of a volatile field: words and whitespace.
Plain == TokenNames \ UNION {Volatile[f] : f \in DOMAIN Volatile}

\* C18: two messages that differ only in hex literals, seq markers,
\* timestamps, hash strings or long digit runs have the same normalized key.
C18_NormalizerMerges ==
    (/\ calc.fn = "_normalize_message"
     /\ calc.done
     /\ Len(calc.m1) = Len(calc.m2)
     /\ \A i \in DOMAIN calc.m1 : calc.m1[i] = calc.m2[i] \/ SameField(calc.m1[i], calc.m2[i]))
    => calc.n1 = calc.n2

\* C19: two messages that are equal but for one word or whitespace in the
\* place of another, or one more word or whitespace at the end of one, have
\* different normalized keys.
C19_NormalizerSeparates ==
    (/\ calc.fn = "_normalize_message"
     /\ calc.done
     /\ \/ Len(calc.m1) # Len(calc.m2) /\ calc.m2[Len(calc.m2)] \in Plain
        \/ \E i \in DOMAIN calc.m1 :
            calc.m1[i] # calc.m2[i] /\ {calc.m1[i], calc.m2[i]} \subseteq Plain)
    => calc.n1 # calc.n2

\* The normalized key of each entry.
KeyOf == [e \in DOMAIN LogEntry |-> _normalize_message(LogEntry[e].message)]

\* The normalized key of entry n of the list under study.
KeyAt(n) == KeyOf[calc.entries[n]]

\* The places of the first upto entries that have the key.
PlacesOf(key, upto) == {n \in 1..upto : KeyAt(n) = key}

RECURSIVE Total(_)
Total(deduped) ==
    IF deduped = <<>> THEN 0 ELSE Head(deduped).count + Total(Tail(deduped))

\* C16: _deduplicate_messages returns one pattern per distinct normalized
\* key, with the number of entries of that key as its count (the counts sum
\* to the number of entries), ordered by count descending and, for equal
\* counts, by the first entry of the key; no entries, no patterns.
C16_DedupCountsAndOrder ==
    (calc.fn = "_deduplicate_messages" /\ calc.done)
    => LET all == Len(calc.entries)
           out == calc.deduped
           first(n) == CHOOSE i \in PlacesOf(out[n].normalized, all) :
                            \A j \in PlacesOf(out[n].normalized, all) : i <= j
       IN /\ Len(out) = Cardinality({KeyAt(n) : n \in 1..all})
          /\ \A n \in 1..all : \E m \in DOMAIN out : out[m].normalized = KeyAt(n)
          /\ \A n, m \in DOMAIN out : out[n].normalized = out[m].normalized => n = m
          /\ \A n \in DOMAIN out : out[n].count = Cardinality(PlacesOf(out[n].normalized, all))
          /\ Total(out) = all
          /\ \A n, m \in DOMAIN out :
                n < m => \/ out[n].count > out[m].count
                         \/ out[n].count = out[m].count /\ first(n) < first(m)
          /\ calc.entries = <<>> => out = <<>>

\* [A, A, B, A] gives the counts 3 and 1, in this order.
C16_Witness ==
    /\ calc.fn = "_deduplicate_messages"
    /\ calc.done
    /\ calc.entries = <<"A1", "A1", "B", "A1">>
    /\ Len(calc.deduped) = 2
    /\ calc.deduped[1].count = 3
    /\ calc.deduped[1].normalized = KeyOf["A1"]
    /\ calc.deduped[2].count = 1

\* The raw messages of the first upto entries that have the key, in order,
\* cut to the first 5.
FirstMessages(key, upto) ==
    LET with == SelectSeq(SubSeq(calc.entries, 1, upto), LAMBDA e : KeyOf[e] = key)
    IN [n \in 1..Min(Len(with), 5) |-> LogEntry[with[n]].message]

\* C17: after every prefix of the input the samples kept for a key are the
\* first min(count, 5) raw messages of the key in input order, between 1 and
\* 5 of them and no more than the count; the pattern returned has these
\* samples and the module and level of the first entry of its key.
C17_DedupSamples ==
    calc.fn = "_deduplicate_messages"
    => LET seen == calc.i - 1
       IN /\ DOMAIN calc.samples = {KeyAt(n) : n \in 1..seen}
          /\ \A key \in DOMAIN calc.samples :
                LET count == Cardinality(PlacesOf(key, seen))
                IN /\ calc.samples[key] = FirstMessages(key, seen)
                   /\ Len(calc.samples[key]) = Min(count, 5)
                   /\ 1 <= Len(calc.samples[key])
                   /\ Len(calc.samples[key]) <= 5
                   /\ Len(calc.samples[key]) <= count
                   /\ \E n \in DOMAIN calc.counter : calc.counter[n] = <<key, count>>
          /\ calc.done
                => \A n \in DOMAIN calc.deduped :
                    LET pattern == calc.deduped[n]
                        first == CHOOSE i \in PlacesOf(pattern.normalized, seen) :
                                    \A j \in PlacesOf(pattern.normalized, seen) : i <= j
                    IN /\ pattern.samples = FirstMessages(pattern.normalized, seen)
                       /\ pattern.module = LogEntry[calc.entries[first]].module
                       /\ pattern.level = LogEntry[calc.entries[first]].level

\* Six entries of one key, the first from another module than the rest: five
\* samples are kept, the first entry's message first.
C17_Witness ==
    /\ calc.fn = "_deduplicate_messages"
    /\ calc.done
    /\ calc.entries = <<"A2", "A1", "A1", "A1", "A1", "A1">>
    /\ calc.deduped[1].count = 6
    /\ calc.deduped[1].samples =
            <<LogEntry["A2"].message, LogEntry["A1"].message, LogEntry["A1"].message,
              LogEntry["A1"].message, LogEntry["A1"].message>>
    /\ calc.deduped[1].module = "ledger"
    /\ calc.deduped[1].level = "warning"

\* The requests of the call under study that have failed.
Failed == {n \in 1..calc.requests : calc.answers[n] # "valid"}

\* C20: create makes at most 3 requests, waits 2 s, 5 s and 15 s after the
\* first, second and third failed request, returns at the first valid
\* response and raises after three failures.
C20_RetryProtocol ==
    calc.fn = "create"
    => /\ calc.requests <= 3
       /\ calc.pc = "returned"
            => /\ calc.answers[calc.requests] = "valid"
               /\ Failed = 1..(calc.requests - 1)
       /\ calc.pc = "raised" => Failed = 1..3
       /\ calc.pc \in {"request", "returned", "raised"}
            => calc.slept = SubSeq(<<2, 5, 15>>, 1, Cardinality(Failed))

\* C21: with a required environment value missing or empty the run goes from
\* Config.from_env straight to the handler of run(): no collaborator is
\* called after it, no pattern or snapshot row is written, the repository is
\* untouched, and the process exits with status 1.
C21_ConfigurationFailure ==
    [][\A p \in Procs :
        /\ (run[p].pc = "config" /\ run'[p].last = Ev("from_env", "-", "ok"))
            => run'[p].missing = {}
        /\ run'[p].missing # {}
            => /\ run'[p].pc \in {"fatal", "finally"}
               /\ run'[p].last = Ev("from_env", "-", "raise")
               /\ run'[p].pc = "finally" => run'[p].outcome # "return"
               /\ UNCHANGED <<processed_patterns, log_snapshots, git>>
        /\ (run[p].missing # {} /\ run'[p].pc = "exited")
            => /\ run'[p].exit = 1
               /\ UNCHANGED <<db, git>>]_vars

\* RESEND_API_KEY is missing: the handler has written its run row, and
\* nothing else is in the database.
C21_Witness ==
    \E p \in Procs :
        /\ run[p].missing = {"RESEND_API_KEY"}
        /\ run[p].pc = "finally"
        /\ run[p].outcome = "sysexit"
        /\ runs = <<RunRow(0, 0, 1)>>
        /\ log_snapshots = <<>>

\* Invocation p enters position pc from position from, where call op for the
\* cluster at hand has returned.
EntersAfter(p, pc, from, op) ==
    (run'[p].pc = pc /\ run[p].pc # pc)
    => /\ run[p].pc = from
       /\ run'[p].i = run[p].i
       /\ run'[p].last = Ev(op, run[p].todo[run[p].i].slug, "ok")

\* C22: the steps of a cluster come in the order generate_fix,
\* create_branch_and_commit, create_pr, record_pattern, each entered when
\* the one before has returned; a pattern row is inserted only by the
\* record_pattern that follows a create_pr that returned, with the cluster's
\* slug and the branch of that pull request, and prs_created is incremented
\* with it; a step that raises writes no row and ends the cluster's turn.
C22_RemediationOrder ==
    [][/\ \A p \in Procs :
            /\ EntersAfter(p, "create_branch", "generate_fix", "generate_fix")
            /\ EntersAfter(p, "create_pr", "create_branch", "create_branch_and_commit")
            /\ EntersAfter(p, "record_pattern", "create_pr", "create_pr")
            /\ (run[p].pc \in FixPcs /\ run'[p].pc \in FixPcs) => run'[p].i >= run[p].i
            /\ (run[p].pc \in FixPcs /\ Raises(p))
                => /\ UNCHANGED processed_patterns
                   /\ run'[p].i = run[p].i + 1
                   /\ run'[p].prs_created = run[p].prs_created
            /\ (run'[p].prs_created # run[p].prs_created /\ run'[p].pc \notin {"exited", "dead"})
                => /\ run[p].pc = "record_pattern"
                   /\ run'[p].prs_created = run[p].prs_created + 1
                   /\ processed_patterns' # processed_patterns
       /\ processed_patterns' # processed_patterns
            => \E p \in Procs :
                /\ run[p].pc = "record_pattern"
                /\ run[p].last = Ev("create_pr", run[p].todo[run[p].i].slug, "ok")
                /\ run[p].branch \in open_prs
                /\ processed_patterns' =
                        Append(processed_patterns,
                               [slug |-> run[p].todo[run[p].i].slug, branch |-> run[p].branch,
                                pr_url |-> run[p].branch, status |-> "open"])
                /\ run'[p].prs_created = run[p].prs_created + 1
                /\ run'[p].i = run[p].i + 1]_vars

\* The first cluster got its pull request and its row under the branch name
\* the oracle chose; create_pr raised for the second, which has no row.
C22_Witness ==
    \E p \in Procs :
        /\ run[p].pc = "record_run"
        /\ Len(run[p].todo) = 2
        /\ run[p].last = Ev("create_pr", run[p].todo[2].slug, "raise")
        /\ run[p].prs_created = 1
        /\ Len(processed_patterns) = run[p].patterns_before + 1
        /\ processed_patterns[Len(processed_patterns)] =
                PatternRow(run[p].todo[1].slug, "fix/other", "open")
        /\ run[p].todo[2].slug # run[p].todo[1].slug

\* C23: the branch a run creates, pushes, opens the pull request for and
\* stores in the pattern row of a cluster is agent-{environment}/{slug}, the
\* name the safety net looked up.
C23_BranchNameConsistency ==
    \A p \in Procs :
        /\ run[p].pc \in {"create_branch", "create_pr", "record_pattern"}
            => run[p].branch = BranchOf(run[p].todo[run[p].i].slug)
        /\ \A n \in (run[p].patterns_before + 1)..Len(processed_patterns) :
            run[p].pc \in Running
            => processed_patterns[n].branch = BranchOf(processed_patterns[n].slug)

\* C24: the eligible list of a run never holds two clusters of one slug, and
\* no run attempts a slug twice.
C24_OneAttemptPerSlug ==
    \A p \in Procs :
        /\ \A n, m \in DOMAIN run[p].new_fixable :
            run[p].new_fixable[n].slug = run[p].new_fixable[m].slug => n = m
        /\ \A n, m \in DOMAIN run[p].attempted :
            run[p].attempted[n] = run[p].attempted[m] => n = m

\* C25: a run that returns with no failed remediation step leaves every
\* needs_fix cluster without an open pattern row, and within the cap, with an
\* open pull request and an open pattern row, whatever earlier runs have left
\* of the slug; so a slug that keeps coming gets both in the first run whose
\* calls succeed.
C25_ProgressAfterFailure ==
    \A p \in Procs :
        (run[p].pc = "finally" /\ run[p].outcome = "return" /\ run[p].errors = 0)
        => \A n \in DOMAIN run[p].fixable :
            n <= run[p].max_prs
            => \E m \in DOMAIN processed_patterns :
                /\ processed_patterns[m].slug = run[p].fixable[n].slug
                /\ processed_patterns[m].status = "open"
                /\ processed_patterns[m].branch \in open_prs

\* The slugs with a row of status 'open' among the first n rows.
OpenSlugs(rows, n) == {rows[m].slug : m \in {k \in 1..n : rows[k].status = "open"}}

\* C26: every step leaves the pattern rows it finds as they are and in
\* place, adding rows at the end only; so the slugs get_open_patterns returns
\* only grow, a run reads every slug that had an open row when it began, and
\* no cluster of such a slug is remediated.
C26_PatternRowsInsertOnly ==
    [][/\ Len(processed_patterns') >= Len(processed_patterns)
       /\ SubSeq(processed_patterns', 1, Len(processed_patterns)) = processed_patterns
       /\ OpenSlugs(processed_patterns, Len(processed_patterns))
            \subseteq get_open_patterns(processed_patterns')
       /\ \A p \in Procs :
            /\ (run[p].pc = "open_patterns" /\ run'[p].pc = "cluster")
                => OpenSlugs(processed_patterns, run[p].patterns_before)
                        \subseteq run'[p].existing_slugs
            /\ run'[p].pc \in FixPcs
                => run'[p].todo[run'[p].i].slug
                        \notin OpenSlugs(processed_patterns', run'[p].patterns_before)]_vars

\* A run that found an open row of one slug has inserted a row for the other
\* slug behind it; the cluster of the first slug needs a fix and was not
\* attempted.
C26_Witness ==
    \E p \in Procs :
        /\ run[p].pc = "record_run"
        /\ run[p].patterns_before = 1
        /\ Len(processed_patterns) = 2
        /\ processed_patterns[1].status = "open"
        /\ processed_patterns[2].slug # processed_patterns[1].slug
        /\ \E n \in DOMAIN run[p].clusters :
            /\ run[p].clusters[n].needs_fix
            /\ run[p].clusters[n].slug = processed_patterns[1].slug
        /\ run[p].attempted = <<processed_patterns[2].slug>>

\* C27: cluster_logs makes one classification request when there is
\* something to classify, and none, returning the empty list, when there is
\* nothing; a run makes its only request in the cluster_logs call of line 92.
C27_OneClassificationRequest ==
    [][/\ classification_requests(<<>>) = 0
       /\ \A result \in OracleResults : cluster_logs(<<>>, result) = <<>>
       /\ \A p \in Procs :
            /\ (run[p].pc = "cluster" /\ run'[p].last.op = "cluster_logs")
                => /\ run[p].entries # <<>>
                   /\ run[p].requests = 0
                   /\ run'[p].requests = 1
            /\ (run'[p].requests # run[p].requests /\ run'[p].pc \notin {"exited", "dead"})
                => /\ run[p].pc = "cluster"
                   /\ run'[p].last.op = "cluster_logs"
            /\ run'[p].requests <= 1]_vars

\* The run has classified its batch with one request and is past the
\* remediation of two clusters.
C27_Witness ==
    \E p \in Procs :
        /\ run[p].pc = "record_run"
        /\ run[p].requests = 1
        /\ Len(run[p].clusters) = 2
        /\ Len(run[p].attempted) = 2

\* C28: a snapshot row is written only by a run that has written its run
\* row, and names that row and the next cluster of the classifier's list;
\* when the run returns it has written one row per cluster, clusters_found
\* in all, in the list's order, and none when the batch was empty.
C28_Snapshots ==
    [][/\ log_snapshots' # log_snapshots
            => \E p \in Procs :
                /\ run[p].pc = "snapshot"
                /\ run[p].run_rows = 1
                /\ run[p].run_id \in DOMAIN runs
                /\ runs[run[p].run_id] =
                        RunRow(Len(run[p].clusters), run[p].prs_created, run[p].errors)
                /\ log_snapshots' =
                        Append(log_snapshots,
                               [run_id |-> run[p].run_id,
                                cluster_slug |-> run[p].clusters[run[p].i].slug])
       /\ \A p \in Procs :
            (run'[p].pc = "finally" /\ run'[p].outcome = "return")
            => IF run'[p].entries = <<>> THEN log_snapshots' = <<>>
               ELSE /\ Len(log_snapshots') = runs'[run'[p].run_id].clusters_found
                    /\ log_snapshots' =
                            [n \in DOMAIN run'[p].clusters |->
                                [run_id |-> run'[p].run_id,
                                 cluster_slug |-> run'[p].clusters[n].slug]]]_vars

\* A run has returned with two snapshot rows: one of a cluster that was
\* notified as skipped, one of a cluster dropped for its open pattern.
C28_Witness ==
    \E p \in Procs :
        /\ run[p].pc = "finally"
        /\ run[p].outcome = "return"
        /\ Len(log_snapshots) = 2
        /\ ~run[p].clusters[1].needs_fix
        /\ run[p].clusters[2].needs_fix
        /\ run[p].clusters[2].slug \in run[p].existing_slugs
        /\ log_snapshots[2] = SnapshotRow(1, run[p].clusters[2].slug)

\* C29: when create_branch_and_commit is entered the clone has main checked
\* out.
C29_WorkingCopyOnMain ==
    \A p \in Procs : run[p].pc = "create_branch" => head = "main"

\* s is t with some elements left out.
IsSubSeq(s, t) ==
    \E f \in [DOMAIN s -> DOMAIN t] :
        /\ \A n, m \in DOMAIN s : n < m => f[n] < f[m]
        /\ \A n \in DOMAIN s : t[f[n]] = s[n]

\* C30: when the remediation loop is over, the classifier's clusters fall
\* into the needs_fix = false ones, handed to the one notification call, and
\* the needs_fix ones, of which those with an open slug, then those with a
\* live branch or pull request, then those beyond the cap are left out and
\* the rest attempted; only attempts are counted as pull requests or errors,
\* the notification holds no needs_fix cluster, and every cluster is counted
\* in clusters_found and, when the run returns, has its snapshot row.
C30_ClusterOutcomes ==
    \A p \in Procs :
        (\/ run[p].pc \in {"record_run", "snapshot"}
         \/ run[p].pc = "finally" /\ run[p].outcome = "return" /\ run[p].entries # <<>>)
        => LET need == SelectSeq(run[p].clusters, LAMBDA c : c.needs_fix)
               open == SelectSeq(need, LAMBDA c : c.slug \in run[p].existing_slugs)
           IN /\ Len(run[p].clusters) = Len(NoFix(run[p].clusters)) + Len(need)
              /\ run[p].notes = IF NoFix(run[p].clusters) = <<>> THEN <<>>
                                ELSE <<NoFix(run[p].clusters)>>
              /\ \A n \in DOMAIN run[p].notes : \A m \in DOMAIN run[p].notes[n] :
                    ~run[p].notes[n][m].needs_fix
              /\ Len(run[p].fixable) = Len(need) - Len(open)
              /\ IsSubSeq(run[p].fixable, need)
              /\ IsSubSeq(run[p].new_fixable, run[p].fixable)
              /\ IsSubSeq(run[p].todo, run[p].new_fixable)
              /\ \A n \in DOMAIN run[p].todo : run[p].todo[n].needs_fix
              /\ run[p].attempted = SlugsOf(run[p].todo)
              /\ run[p].prs_created + run[p].errors = Len(run[p].attempted)
              /\ run[p].clusters_found = Len(run[p].clusters)
              /\ run[p].pc = "finally" => Len(log_snapshots) = Len(run[p].clusters)

\* Two needs_fix clusters and a cap of one: the second is neither attempted,
\* nor notified, nor counted as an error, and it is counted and snapshotted.
C30_Witness ==
    \E p \in Procs :
        /\ run[p].pc = "finally"
        /\ run[p].outcome = "return"
        /\ Len(run[p].new_fixable) = 2
        /\ run[p].max_prs = 1
        /\ Len(run[p].attempted) = 1
        /\ run[p].errors = 0
        /\ run[p].notes = <<>>
        /\ runs[run[p].run_id] = RunRow(2, 1, 0)
        /\ log_snapshots[2].cluster_slug = run[p].new_fixable[2].slug

\* The (normalized key, count) pairs of a list of patterns.
KeyCounts(deduped) == {<<deduped[n].normalized, deduped[n].count>> : n \in DOMAIN deduped}

\* C31: _deduplicate_messages returns the same set of (normalized key, count)
\* pairs, and as many patterns, for a list of entries and for any reordering
\* of it.
C31_PermutationInvariance ==
    (calc.fn = "permuted" /\ calc.one.done /\ calc.other.done)
    => /\ KeyCounts(calc.one.deduped) = KeyCounts(calc.other.deduped)
       /\ Len(calc.one.deduped) = Len(calc.other.deduped)

\* [A1, A2, B, C] and [C, B, A2, A1]: the same pairs, while the order of the
\* patterns of equal count, the samples' order and the module differ.
C31_Witness ==
    /\ calc.fn = "permuted"
    /\ calc.one.done
    /\ calc.other.done
    /\ calc.one.entries = <<"A1", "A2", "B", "C">>
    /\ calc.other.entries = <<"C", "B", "A2", "A1">>
    /\ KeyCounts(calc.one.deduped) = {<<KeyOf["A1"], 2>>, <<KeyOf["B"], 1>>, <<KeyOf["C"], 1>>}
    /\ calc.one.deduped # calc.other.deduped
    /\ calc.one.deduped[1].module # calc.other.deduped[1].module
    /\ calc.one.deduped[1].samples # calc.other.deduped[1].samples
    /\ calc.one.deduped[2].normalized = calc.other.deduped[3].normalized

\* An invocation past _acquire_lock ends, and a call of create ends.
Terminates ==
    /\ \A p \in Procs : run[p].pc \in Running ~> run[p].pc \in {"exited", "dead"}
    /\ calc.fn = "create" ~> (calc.fn = "create" /\ calc.pc \in {"returned", "raised"})

\* The retry loop makes at most 3 requests.
RetryBounded == calc.fn = "create" => calc.requests <= Len(RETRY_DELAYS)

\* The reconciliation loop takes a pull request of failed_prs and does not
\* come back to it.
ReconcilesOnce ==
    \A p \in Procs :
        (/\ run[p].pc = "reconcile"
         /\ run[p].failed_prs # {}
         /\ run'[p] # run[p]
         /\ run'[p].pc \in {"reconcile", "query"})
        => /\ run'[p].last.op = "push_fix_commit"
           /\ run'[p].last.slug \in run[p].failed_prs
           /\ run'[p].failed_prs \subseteq run[p].failed_prs \ {run'[p].last.slug}

\* The remediation loop has visited the first clusters of new_fixable, each
\* once.
RemediatesOnce ==
    \A p \in Procs :
        run[p].pc \in FixPcs \cup {"record_run", "snapshot"}
        => /\ Len(run[p].attempted) <= Len(run[p].new_fixable)
           /\ \A n \in DOMAIN run[p].attempted :
                run[p].attempted[n] = run[p].new_fixable[n].slug

\* The remediation loop visits at most max_prs_per_run clusters, none when
\* max_prs_per_run is not positive.
RemediationCapped ==
    \A p \in Procs :
        run[p].pc \in FixPcs \cup {"record_run", "snapshot"}
        => Len(run[p].attempted) <= Max(run[p].max_prs, 0)

\* An invocation that has ended does not hold the lock, and one that leaves
\* run() by its return or by the handler's sys.exit(1) has written a run
\* record unless a record_run raised.
EndsClean ==
    \A p \in Procs :
        /\ run[p].pc \in {"exited", "dead"} => lock # p
        /\ (run[p].pc = "finally" /\ run[p].outcome \in {"return", "sysexit"})
            => run[p].run_rows >= 1 \/ run[p].unwritable

\* C32: every invocation that got the lock ends and every call of create
\* ends, the retry loop within 3 requests, the reconciliation loop visiting
\* each failed pull request once and the remediation loop at most
\* max_prs_per_run clusters once each; an ended invocation does not hold the
\* lock and, left by return or sys.exit(1) with a state store that took its
\* record_run, has written a run record.
C32_Termination ==
    /\ Terminates
    /\ []RetryBounded
    /\ [][ReconcilesOnce]_vars
    /\ []RemediatesOnce
    /\ []RemediationCapped
    /\ []EndsClean

====
